---- MODULE Spec2Model ----
(***************************************************************************)
(* State-machine model of the tiny-rollup validator core:                  *)
(*   StateManager         (src/src/state_manager/state_manager.rs)         *)
(*   TransactionProcessor (src/src/transaction_processor/...)              *)
(*   Sequencer            (src/src/sequencer/sequencer.rs)                 *)
(*   BatchProcessor       (src/src/batch_processor/batch_processor.rs)     *)
(*   RollupRpcImpl        (src/src/rpc_server/server.rs)                   *)
(*                                                                         *)
(* u64 quantities are modelled with WordBits bits (arithmetic modulo       *)
(* 2^WordBits), pubkeys are small integers.                                  *)
(***************************************************************************)
EXTENDS Integers, Sequences, FiniteSets, TLC

(* ------------------------------ bounds --------------------------------- *)
\* width of the modelled u64 (balances, amounts): values are 0..2^WordBits-1
WordBits == 8
\* number of sendTransaction calls explored in one behaviour
MaxCalls == 2
\* width of the modelled 64-bit hasher output
HashBits == 12
\* sendTransaction requests explored on top of a backlog
MaxExtra == 2

(* ------------------------- program constants --------------------------- *)
\* std::cmp::min(pending.len(), 100)
MaxBatchSize == 100
\* mpsc::channel(100)
ChannelCapacity == 100
\* system instruction discriminant of Transfer
TransferTag == 2
\* index that the code takes to designate the system program
SystemProgramIndex == 0
\* bytes of instruction data read for a transfer (4 tag + 8 lamports)
TransferDataLen == 12
\* bytes of instruction data needed to read the tag
TagLen == 4

\* the account identifiers explored
Pubkeys == {1, 2, 3}
U64Mod == 2 ^ WordBits
U64Max == U64Mod - 1
HashMod == 2 ^ HashBits
\* Pubkey "11111111111111111111111111111111"
SystemProgramId == 0

Min(a, b) == IF a < b THEN a ELSE b

(* ============================ StateManager ============================= *)

\* the account that transfer_lamports substitutes for an absent one
DefaultAccount ==
    [lamports |-> 0, data |-> <<>>, owner |-> SystemProgramId,
     executable |-> FALSE, rent_epoch |-> 0]

Account(l) == [DefaultAccount EXCEPT !.lamports = l]

\* bincode::serialize(&L2Account): the fields in declaration order
Serialize(a) ==
    <<a.lamports, Len(a.data), a.data, a.owner,
      IF a.executable THEN 1 ELSE 0, a.rent_epoch>>

\* bincode::deserialize::<L2Account>: fails on anything that is not an encoding
Deserialize(b) ==
    IF Len(b) = 6 /\ b[2] = Len(b[3]) /\ b[5] \in {0, 1}
    THEN [ok |-> TRUE,
          val |-> [lamports |-> b[1], data |-> b[3], owner |-> b[4],
                   executable |-> (b[5] = 1), rent_epoch |-> b[6]]]
    ELSE [ok |-> FALSE, val |-> DefaultAccount]

\* HashMap::insert
MapInsert(m, k, v) ==
    [x \in (DOMAIN m) \cup {k} |-> IF x = k THEN v ELSE m[x]]

\* Hasher::write of one 64-bit word into the running hash
HashWord(h, w) == (h * 31 + w + 1) % HashMod

RECURSIVE HashBytes(_, _)
\* Hash of a Vec<u8> after its length prefix: one write per byte
HashBytes(h, bytes) ==
    IF bytes = <<>> THEN h
    ELSE HashBytes(HashWord(h, Head(bytes)), Tail(bytes))

\* the body of the loop of update_state_root for one (pubkey, account)
HashEntry(h, k, a) ==
    HashBytes(HashWord(HashWord(HashWord(h, k), a.lamports), Len(a.data)), a.data)

RECURSIVE HashAccounts(_, _, _)
\* the loop of update_state_root, over the keys in the order `enum`
HashAccounts(h, enum, accs) ==
    IF enum = <<>> THEN h
    ELSE HashAccounts(
            IF Head(enum) \in DOMAIN accs
            THEN HashEntry(h, Head(enum), accs[Head(enum)]) ELSE h,
            Tail(enum), accs)

\* state_root: [0u8; 32] until the first update, then hash in its first 8 bytes
ZeroRoot == [fresh |-> TRUE, hash |-> 0]

\* update_state_root: sequential hash of accounts.iter(), whose order is that
\* of the HashMap (iter: the enumeration order of this map instance)
UpdateStateRoot(accs, iter) ==
    [fresh |-> FALSE, hash |-> HashAccounts(0, iter, accs)]

\* get_account(pubkey) on cache accs and store dbv; get_ok: db.get returns Ok.
\* Result: the Option returned and the cache afterwards.
GetAccount(accs, dbv, k, get_ok) ==
    IF k \in DOMAIN accs
    THEN [some |-> TRUE, val |-> accs[k], accounts |-> accs]
    ELSE IF get_ok /\ k \in DOMAIN dbv /\ Deserialize(dbv[k]).ok
    THEN [some |-> TRUE, val |-> Deserialize(dbv[k]).val,
          accounts |-> MapInsert(accs, k, Deserialize(dbv[k]).val)]
    ELSE [some |-> FALSE, val |-> DefaultAccount, accounts |-> accs]

\* update_account(pubkey, account); put_ok: db.put returns Ok.
\* The cache insert comes first; a failed put returns before the state root
\* is updated.
UpdateAccount(accs, dbv, root, iter, k, a, put_ok) ==
    LET accs1 == MapInsert(accs, k, a) IN
    IF put_ok
    THEN [ok |-> TRUE, accounts |-> accs1,
          db |-> MapInsert(dbv, k, Serialize(a)),
          state_root |-> UpdateStateRoot(accs1, iter)]
    ELSE [ok |-> FALSE, accounts |-> accs1, db |-> dbv, state_root |-> root]

(* ========================= TransactionProcessor ======================== *)

\* anyhow messages of the processor, and the two ways a call ends otherwise
ErrInvalidSignature == "Invalid transaction signatures"
ErrNoSignature == "No signature found"
ErrNoFeePayer == "No fee payer found"
ErrInsufficientFunds == "Insufficient funds"
ErrStorage == "rocksdb error"
Panicked == "panic"
Accepted == "Ok"

\* HashMap::get(..).copied().unwrap_or(0) on the nonce tracker
TrackedNonce(nonces, k) == IF k \in DOMAIN nonces THEN nonces[k] ELSE 0

\* validate_transaction: only tx.verify() decides; the tracked nonce is read
\* and not compared with anything
ValidateTransaction(tx, nonces) ==
    IF ~tx.sig_ok THEN ErrInvalidSignature ELSE Accepted

\* convert_to_l2_transaction.  Instruction indices are 0-based as in the code.
ConvertToL2(tx) ==
    IF tx.signatures = <<>> THEN [res |-> ErrNoSignature]
    ELSE IF tx.account_keys = <<>> THEN [res |-> ErrNoFeePayer]
    ELSE
      LET default == [res |-> Accepted, signature |-> tx.signatures[1],
                      from |-> tx.account_keys[1], has_to |-> FALSE, to |-> 0,
                      lamports |-> 0, nonce |-> 0]
      IN
      IF tx.instructions = <<>> THEN default
      ELSE
        LET ins == tx.instructions[1] IN
        IF /\ ins.program_id_index = SystemProgramIndex
           /\ ins.data.len >= TagLen
           /\ ins.data.tag = TransferTag
        THEN
          IF ins.data.len < TransferDataLen
          THEN [res |-> Panicked]           \* instruction_data[4..11] out of bounds
          ELSE IF Len(ins.accounts) > 1
          THEN IF ins.accounts[2] >= Len(tx.account_keys)
               THEN [res |-> Panicked]      \* account_keys.get(..).unwrap() on None
               ELSE [default EXCEPT !.has_to = TRUE,
                                    !.to = tx.account_keys[ins.accounts[2] + 1],
                                    !.lamports = ins.data.lamports]
          ELSE [default EXCEPT !.lamports = ins.data.lamports]
        ELSE default

\* the ledger fields of the result of update_account
LedgerOf(u) ==
    [accounts |-> u.accounts, db |-> u.db, state_root |-> u.state_root]

\* transfer_lamports after its second update_account returned u2
TransferWritten(u2) ==
    [res |-> IF u2.ok THEN Accepted ELSE ErrStorage, s |-> LedgerOf(u2)]

\* transfer_lamports after update_account(from, ..) returned u1: the error
\* is returned, else the recipient is written
TransferDebited(iter, to, to_account, f, u1) ==
    IF ~u1.ok THEN [res |-> ErrStorage, s |-> LedgerOf(u1)]
    ELSE TransferWritten(
             UpdateAccount(u1.accounts, u1.db, u1.state_root, iter,
                           to, to_account, f.put_to))

\* to_account.lamports += amount: a panic with overflow checks, else wrapping
Credit(lamports, amount) == (lamports + amount) % U64Mod

\* transfer_lamports after both get_account calls (g1: sender, g2: recipient):
\* both copies are changed, then the sender is written
TransferLoaded(s, iter, checks, from, to, amount, f, g1, g2) ==
    IF g2.val.lamports + amount > U64Max /\ checks
    THEN [res |-> Panicked, s |-> [s EXCEPT !.accounts = g2.accounts]]
    ELSE TransferDebited(iter, to,
             [g2.val EXCEPT !.lamports = Credit(g2.val.lamports, amount)], f,
             UpdateAccount(g2.accounts, s.db, s.state_root, iter, from,
                           [g1.val EXCEPT !.lamports = g1.val.lamports - amount],
                           f.put_from))

\* transfer_lamports after get_account(from) returned g1: the balance check,
\* then get_account(to)
TransferChecked(s, iter, checks, from, to, amount, f, g1) ==
    IF g1.val.lamports < amount
    THEN [res |-> ErrInsufficientFunds, s |-> [s EXCEPT !.accounts = g1.accounts]]
    ELSE TransferLoaded(s, iter, checks, from, to, amount, f, g1,
                        GetAccount(g1.accounts, s.db, to, f.get_to))

\* transfer_lamports(from, to, amount) on the ledger s = [accounts, db,
\* state_root]; iter: enumeration order of the cache; checks: the build has
\* overflow checks; f: which storage calls of this call succeed.
TransferLamports(s, iter, checks, from, to, amount, f) ==
    TransferChecked(s, iter, checks, from, to, amount, f,
                    GetAccount(s.accounts, s.db, from, f.get_from))

\* a nonce update that stores 1 instead of the tracked nonce + 1
BumpNonce_StoreOne(nonces, k) == MapInsert(nonces, k, 1)

\* the nonce update that ends execute_l2_transaction
BumpNonce(nonces, k) == MapInsert(nonces, k, TrackedNonce(nonces, k) + 1)

\* execute_l2_transaction with the nonce update moved before the transfer
ExecuteMatched_NonceFirst(nonces, l2, t) ==
    [res |-> t.res, s |-> t.s, nonces |-> BumpNonce(nonces, l2.from)]

\* execute_l2_transaction with the nonce update inside the Some(to) branch
ExecuteMatched_TransferOnly(nonces, l2, t) ==
    IF t.res # Accepted
    THEN [res |-> t.res, s |-> t.s, nonces |-> nonces]
    ELSE [res |-> Accepted, s |-> t.s,
          nonces |-> IF l2.has_to THEN BumpNonce(nonces, l2.from) ELSE nonces]

\* execute_l2_transaction after the match on tx.to gave t: an error of the
\* transfer is returned, else the nonce is updated
ExecuteMatched(nonces, l2, t) ==
    IF t.res # Accepted
    THEN [res |-> t.res, s |-> t.s, nonces |-> nonces]
    ELSE [res |-> Accepted, s |-> t.s, nonces |-> BumpNonce(nonces, l2.from)]

\* execute_l2_transaction on s and the nonce tracker
ExecuteL2(s, nonces, iter, checks, l2, f) ==
    ExecuteMatched(nonces, l2,
        IF l2.has_to
        THEN TransferLamports(s, iter, checks, l2.from, l2.to, l2.lamports, f)
        ELSE [res |-> Accepted, s |-> s])

\* process_transaction with a receipt that carries the state root
ProcessExecuted_RootReceipt(l2, e) ==
    [res |-> e.res, s |-> e.s, nonces |-> e.nonces,
     receipt |-> IF e.res = Accepted
                 THEN <<l2.signature, e.s.state_root.hash>> ELSE <<>>]

\* process_transaction after execute_l2_transaction returned e
ProcessExecuted(l2, e) ==
    [res |-> e.res, s |-> e.s, nonces |-> e.nonces,
     receipt |-> IF e.res = Accepted THEN <<l2.signature>> ELSE <<>>]

\* process_transaction after convert_to_l2_transaction returned l2
ProcessConverted(s, nonces, iter, checks, f, l2) ==
    IF l2.res # Accepted
    THEN [res |-> l2.res, s |-> s, nonces |-> nonces, receipt |-> <<>>]
    ELSE ProcessExecuted(l2, ExecuteL2(s, nonces, iter, checks, l2, f))

\* process_transaction: validate, convert, execute; the receipt is the signature
ProcessTransaction(s, nonces, iter, checks, tx, f) ==
    IF ValidateTransaction(tx, nonces) # Accepted
    THEN [res |-> ValidateTransaction(tx, nonces), s |-> s, nonces |-> nonces,
          receipt |-> <<>>]
    ELSE ProcessConverted(s, nonces, iter, checks, f, ConvertToL2(tx))

(* ============================== inputs ================================= *)

\* amounts carried by the transfers explored
Amounts == {40, 60, U64Max}

\* a system-transfer-shaped transaction as the processor recognises it:
\* program_id_index 0, tag 2, 12 data bytes, accounts [payer, recipient]
Transfer(from, to, amount, n) ==
    [signatures |-> << <<1, from, to, amount, n>> >>,
     sig_ok |-> TRUE,
     account_keys |-> IF from = to THEN <<from>> ELSE <<from, to>>,
     instructions |-> << [program_id_index |-> SystemProgramIndex,
                          accounts |-> IF from = to THEN <<0, 0>> ELSE <<0, 1>>,
                          data |-> [len |-> TransferDataLen, tag |-> TransferTag,
                                    lamports |-> amount]] >>,
     nonce |-> n]

\* the other shapes of a decoded transaction, all paid by account 1
BadSigTx == [Transfer(1, 2, 40, 1) EXCEPT !.sig_ok = FALSE,
                                          !.signatures = << <<2, 1, 2, 40, 1>> >>]
NoSigTx == [Transfer(1, 2, 40, 1) EXCEPT !.signatures = <<>>]
NoInstrTx == [Transfer(1, 2, 0, 1) EXCEPT !.instructions = <<>>,
                                          !.signatures = << <<3, 1, 2, 0, 1>> >>]
OtherTagTx == [Transfer(1, 2, 40, 1) EXCEPT !.instructions[1].data.tag = 3,
                                            !.signatures = << <<4, 1, 2, 40, 1>> >>]
OneAccountTx == [Transfer(1, 2, 40, 1) EXCEPT !.instructions[1].accounts = <<0>>,
                                              !.signatures = << <<5, 1, 2, 40, 1>> >>]
ShortDataTx == [Transfer(1, 2, 40, 1) EXCEPT !.instructions[1].data.len = 8,
                                             !.signatures = << <<6, 1, 2, 40, 1>> >>]
BadIndexTx == [Transfer(1, 2, 40, 1) EXCEPT !.instructions[1].accounts = <<0, 5>>,
                                            !.signatures = << <<7, 1, 2, 40, 1>> >>]
\* a transfer as a wallet builds it: keys [from, to, system program], index 2
WalletTransferTx ==
    [Transfer(1, 2, 40, 1) EXCEPT !.account_keys = <<1, 2, SystemProgramId>>,
                                  !.instructions[1].program_id_index = 2,
                                  !.signatures = << <<8, 1, 2, 40, 1>> >>]
TinyDataTx == [Transfer(1, 2, 40, 1) EXCEPT !.instructions[1].data.len = 2,
                                            !.signatures = << <<9, 1, 2, 40, 1>> >>]

OtherTxs == {BadSigTx, NoSigTx, NoInstrTx, OtherTagTx, OneAccountTx, ShortDataTx,
             BadIndexTx, WalletTransferTx, TinyDataTx}

Transfers ==
    {Transfer(a, b, m, 1) : a \in {1, 2}, b \in Pubkeys, m \in Amounts}
    \cup {Transfer(3, 2, 0, 1)}

\* a transfer whose declared nonce is ahead of any tracked nonce
FutureNonceTx == Transfer(1, 2, 40, 2)

TxSet == Transfers \cup OtherTxs \cup {FutureNonceTx}

\* outcomes of the storage calls of one request: at most one of them fails
AllOk == [get_from |-> TRUE, get_to |-> TRUE, put_from |-> TRUE, put_to |-> TRUE]
Faults == {[AllOk EXCEPT !.get_from = FALSE], [AllOk EXCEPT !.get_to = FALSE],
           [AllOk EXCEPT !.put_from = FALSE], [AllOk EXCEPT !.put_to = FALSE]}

\* the requests explored: every transaction with working storage, and the
\* transfers of 40 from account 1 with one failing storage call
Requests ==
    {<<tx, AllOk>> : tx \in TxSet}
    \cup {<<Transfer(1, b, 40, 1), f>> : b \in {1, 2}, f \in Faults}

\* an account that is neither empty nor system-owned
ProgramAccount ==
    [lamports |-> 40, data |-> <<7>>, owner |-> 2, executable |-> TRUE,
     rent_epoch |-> 5]

\* contents of the durable store found at start (StateManager::new opens an
\* existing database)
StoreOf(ledger) == [k \in DOMAIN ledger |-> Serialize(ledger[k])]

InitialLedgers ==
    { (1 :> Account(100)),
      (1 :> Account(U64Max)) @@ (2 :> Account(60)),
      (1 :> Account(100)) @@ (3 :> ProgramAccount) }

\* enumeration orders of the cache explored: ascending and descending keys
Ascending == <<1, 2, 3>>
Descending == <<3, 2, 1>>
IterOrders == {Ascending, Descending}

(* ============================== state ================================== *)

VARIABLES
    accounts,        \* StateManager.accounts: the cache
    db,              \* StateManager.db: pubkey -> serialized account
    state_root,      \* StateManager.state_root
    nonce_tracker,   \* TransactionProcessor.nonce_tracker
    iter_order,      \* order in which accounts.iter() enumerates this map
    overflow_checks, \* the build panics on integer overflow (else it wraps)
    pending_txs,     \* Sequencer.pending_txs
    channel,         \* batches sent on batch_sender and not yet received
    l1_log,          \* batches taken by process_batches, with the L1 result
    calls,           \* number of sendTransaction requests served
    last,            \* the last sendTransaction request and its result
    enqueued,        \* every transaction passed to add_transaction, in order
    replica,         \* a second StateManager, on a store of its own
    tasks,           \* the sendTransaction requests being served concurrently
    flush,           \* the task of start_batching: where create_batch stands
    exited           \* main has returned: the runtime and its tasks are gone

ledgerVars == <<accounts, db, state_root, nonce_tracker>>
buildVars == <<iter_order, overflow_checks>>
seqVars == <<pending_txs, channel, l1_log>>
rpcVars == <<calls, last, enqueued>>
NoCall == [tx |-> NoSigTx, res |-> "none", receipt |-> <<>>]

\* what the request tasks leave alone
bgVars == <<replica, flush, exited>>
auxVars == <<replica, tasks, flush, exited>>
vars == <<ledgerVars, buildVars, seqVars, rpcVars, auxVars>>

\* the request handlers that run concurrently
Procs == {1, 2}

\* a handler that serves no request
IdleTask ==
    [pc |-> "idle", tx |-> NoSigTx, who |-> "from",
     from_account |-> DefaultAccount, to_account |-> DefaultAccount,
     loaded |-> DefaultAccount, res |-> "none"]

\* start_batching between two calls of create_batch
IdleFlush == [pc |-> "idle", batch |-> <<>>]

\* StateManager::new on an empty store, its cache enumerating in order iter
FreshStateManager(iter) ==
    [accounts |-> <<>>, db |-> <<>>, state_root |-> ZeroRoot, iter_order |-> iter]


\* StateManager::new, TransactionProcessor::new, Sequencer::new on a database
\* that may already hold accounts
Init ==
    /\ accounts = <<>>
    /\ db \in {StoreOf(l) : l \in InitialLedgers}
    /\ state_root = ZeroRoot
    /\ nonce_tracker = <<>>
    /\ iter_order \in IterOrders
    /\ overflow_checks \in BOOLEAN
    /\ pending_txs = <<>>
    /\ channel = <<>>
    /\ l1_log = <<>>
    /\ calls = 0
    /\ last = NoCall
    /\ enqueued = <<>>
    /\ replica = FreshStateManager(Ascending)
    /\ tasks = [p \in Procs |-> IdleTask]
    /\ flush = IdleFlush
    /\ exited = FALSE

(* ============================= Sequencer =============================== *)

\* add_transaction: push under the write lock; no capacity, no result
AddTransaction(pending, tx) == Append(pending, tx)

\* a drain that takes the newest entries instead of the oldest
DrainBatch_Newest(pending) ==
    SubSeq(pending, Len(pending) - Min(Len(pending), MaxBatchSize) + 1,
           Len(pending))

\* the batch create_batch drains: the first min(len, 100) pending entries
DrainBatch(pending) == SubSeq(pending, 1, Min(Len(pending), MaxBatchSize))

\* a drain that copies the batch and removes nothing
DrainRest_Keep(pending) == pending

\* what create_batch leaves in the queue
DrainRest(pending) ==
    SubSeq(pending, Min(Len(pending), MaxBatchSize) + 1, Len(pending))

\* create_batch, the receiver being alive and the channel having room
CreateBatch ==
    /\ flush.pc = "idle"
    /\ pending_txs # <<>>
    /\ Len(channel) < ChannelCapacity
    /\ channel' = Append(channel, DrainBatch(pending_txs))
    /\ pending_txs' = DrainRest(pending_txs)
    /\ UNCHANGED <<l1_log, ledgerVars, buildVars, rpcVars, auxVars>>

\* a tick of start_batching that finds the queue empty: create_batch returns
CreateBatchEmpty ==
    /\ flush.pc = "idle"
    /\ pending_txs = <<>>
    /\ UNCHANGED vars

(* =========================== BatchProcessor ============================ *)

\* one iteration of process_batches: recv a batch, submit_batch_to_l1; an Err
\* is printed and the batch is dropped
ProcessBatches(l1_ok) ==
    /\ channel # <<>>
    /\ channel' = Tail(channel)
    /\ l1_log' = Append(l1_log, [batch |-> Head(channel), ok |-> l1_ok])
    /\ UNCHANGED <<pending_txs, ledgerVars, buildVars, rpcVars, auxVars>>

(* ============================ RollupRpcImpl ============================ *)

\* send_transaction after process_transaction returned r: an error is
\* returned to the caller, else the transaction is added to the sequencer
SendTransactionProcessed(tx, r) ==
    /\ accounts' = r.s.accounts
    /\ db' = r.s.db
    /\ state_root' = r.s.state_root
    /\ nonce_tracker' = r.nonces
    /\ pending_txs' = IF r.res = Accepted
                      THEN AddTransaction(pending_txs, tx) ELSE pending_txs
    /\ enqueued' = IF r.res = Accepted THEN Append(enqueued, tx) ELSE enqueued
    /\ last' = [tx |-> tx, res |-> r.res, receipt |-> r.receipt]
    /\ calls' = calls + 1
    /\ UNCHANGED <<channel, l1_log, buildVars, auxVars>>

\* sendTransaction on a decoded transaction: process_transaction, then
\* add_transaction when it returned Ok
SendTransaction(tx, f) ==
    SendTransactionProcessed(tx,
        ProcessTransaction(
            [accounts |-> accounts, db |-> db, state_root |-> state_root],
            nonce_tracker, iter_order, overflow_checks, tx, f))

\* getBalance / getAccountInfo: get_account, which fills the cache on a miss
GetBalance(k, get_ok) ==
    /\ accounts' = GetAccount(accounts, db, k, get_ok).accounts
    /\ UNCHANGED <<db, state_root, nonce_tracker, buildVars, seqVars, rpcVars, auxVars>>

\* the ledger under sendTransaction and the read calls
Next ==
    \/ \E r \in Requests : calls < MaxCalls /\ SendTransaction(r[1], r[2])
    \/ \E k \in Pubkeys, ok \in BOOLEAN : GetBalance(k, ok)

Spec == Init /\ [][Next]_vars

(* ======================= properties of the ledger ====================== *)

\* the record get_account yields for k with working storage: cache, then
\* store, then the default of transfer_lamports
View(accs, dbv, k) ==
    LET g == GetAccount(accs, dbv, k, TRUE) IN
    IF g.some THEN g.val ELSE DefaultAccount

RecordOf(k) == View(accounts, db, k)
BalanceOf(k) == RecordOf(k).lamports
StoredAt(k) == IF k \in DOMAIN db THEN <<db[k]>> ELSE <<>>
\* the same, in the state a step leads to
RecordAfter(k) == View(accounts', db', k)
BalanceAfter(k) == RecordAfter(k).lamports
StoredAfter(k) == IF k \in DOMAIN db' THEN <<db'[k]>> ELSE <<>>

\* this step is a sendTransaction request
IsCall == calls' = calls + 1

\* tx passes validation and decodes to a transfer with a recipient
IsTransferTx(tx) ==
    /\ ValidateTransaction(tx, <<>>) = Accepted
    /\ ConvertToL2(tx).res = Accepted
    /\ ConvertToL2(tx).has_to

\* C1 (as claimed): every accepted transfer, the self-transfer included,
\* leaves sender balance + recipient balance unchanged.
C1_Conservation ==
    [][(IsCall /\ last'.res = Accepted /\ IsTransferTx(last'.tx)) =>
          LET l2 == ConvertToL2(last'.tx) IN
          BalanceOf(l2.from) + BalanceOf(l2.to)
              = BalanceAfter(l2.from) + BalanceAfter(l2.to)]_vars

ErrReplayedNonce == "ReplayedNonce"

\* C2 (as claimed): a validly signed, decodable transaction whose declared
\* nonce is not the sender's tracked nonce + 1 is rejected with ReplayedNonce
\* and changes neither the store, the commitment, any record nor the tracker.
C2_ReplayRejected ==
    [][(/\ IsCall
        /\ ValidateTransaction(last'.tx, nonce_tracker) = Accepted
        /\ ConvertToL2(last'.tx).res = Accepted
        /\ last'.tx.nonce
             # TrackedNonce(nonce_tracker, ConvertToL2(last'.tx).from) + 1)
       => /\ last'.res = ErrReplayedNonce
          /\ db' = db /\ state_root' = state_root
          /\ nonce_tracker' = nonce_tracker
          /\ \A k \in Pubkeys : RecordAfter(k) = RecordOf(k)]_vars

\* C3: a transfer of more than the sender's balance (absent sender: 0) ends
\* with "Insufficient funds" and leaves the sender's and the recipient's
\* record, the store, the state root, the nonce tracker and the pending queue
\* as they were.
C3_InsufficientFundsAtomic ==
    [][(/\ IsCall
        /\ IsTransferTx(last'.tx)
        /\ ConvertToL2(last'.tx).lamports > BalanceOf(ConvertToL2(last'.tx).from))
       => LET l2 == ConvertToL2(last'.tx) IN
          /\ last'.res = ErrInsufficientFunds
          /\ last'.receipt = <<>>
          /\ RecordAfter(l2.from) = RecordOf(l2.from)
          /\ RecordAfter(l2.to) = RecordOf(l2.to)
          /\ db' = db
          /\ state_root' = state_root
          /\ nonce_tracker' = nonce_tracker
          /\ pending_txs' = pending_txs]_vars

\* C3 witness: the last request was a transfer of more than the sender holds,
\* from a sender holding 100, and it was rejected for insufficient funds
C3_Witness ==
    /\ calls > 0
    /\ last.res = ErrInsufficientFunds
    /\ IsTransferTx(last.tx)
    /\ BalanceOf(ConvertToL2(last.tx).from) = 100
    /\ ConvertToL2(last.tx).lamports > 100

\* C5 (as claimed): update_account leaves the cache and the store agreeing on
\* the record of its id, whether it succeeds or fails: no cached record
\* differs from the stored one.
C5_UpdateAtomic ==
    \A k \in DOMAIN accounts :
        /\ k \in DOMAIN db
        /\ Deserialize(db[k]).ok
        /\ Deserialize(db[k]).val = accounts[k]

\* C6 (as claimed): a transfer that ends with a storage error leaves the
\* sender's and the recipient's record, cached and stored, as before the call.
C6_TransferPairAtomic ==
    [][(IsCall /\ last'.res = ErrStorage /\ IsTransferTx(last'.tx)) =>
          LET l2 == ConvertToL2(last'.tx) IN
          \A k \in {l2.from, l2.to} :
              /\ RecordAfter(k) = RecordOf(k)
              /\ StoredAfter(k) = StoredAt(k)]_vars

(* ===================== the batching pipeline ========================== *)

\* the i-th transaction of a stream of zero-amount transfers from 1 to 2,
\* which process_transaction accepts whatever the ledger holds
StreamTx(i) == Transfer(1, 2, 0, i)

\* the ledger, nonce tracker and pending queue at construction, on a store
\* holding account 1 = 100
FreshNode ==
    [s |-> [accounts |-> <<>>, db |-> StoreOf(1 :> Account(100)),
            state_root |-> ZeroRoot],
     nonces |-> <<>>, pending |-> <<>>]

\* sendTransaction(StreamTx(i)) on the node b
SendStreamProcessed(b, i, r) ==
    [s |-> r.s, nonces |-> r.nonces,
     pending |-> IF r.res = Accepted
                 THEN AddTransaction(b.pending, StreamTx(i)) ELSE b.pending]

SendStream(b, i) ==
    SendStreamProcessed(b, i,
        ProcessTransaction(b.s, b.nonces, Ascending, TRUE, StreamTx(i), AllOk))

\* the node after sendTransaction has served StreamTx(1) .. StreamTx(n), no
\* tick of start_batching having found the queue non-empty: the first request
\* loads account 1, creates account 2 and sets the state root; every request
\* advances the nonce of account 1 and is pushed on the queue
AfterSends(n) ==
    IF n = 0 THEN FreshNode
    ELSE LET first == SendStream(FreshNode, 1) IN
         [s |-> first.s, nonces |-> (1 :> n),
          pending |-> [i \in 1 .. n |-> StreamTx(i)]]

\* AfterSends(n) is what n requests compute: each request leads from
\* AfterSends(i) to AfterSends(i + 1)
AfterSendsComputed(n) ==
    \A i \in 0 .. n - 1 : SendStream(AfterSends(i), i + 1) = AfterSends(i + 1)

\* queue lengths found by the first tick that are explored
Backlogs == {0, 1, MaxBatchSize - 1, MaxBatchSize, MaxBatchSize + 1, 250}

InitBatch ==
    \E n \in Backlogs :
        LET b == AfterSends(n) IN
        /\ AfterSendsComputed(n)
        /\ accounts = b.s.accounts
        /\ db = b.s.db
        /\ state_root = b.s.state_root
        /\ nonce_tracker = b.nonces
        /\ iter_order = Ascending
        /\ overflow_checks = TRUE
        /\ pending_txs = b.pending
        /\ channel = <<>>
        /\ l1_log = <<>>
        /\ calls = n
        /\ last = IF n = 0 THEN NoCall
                  ELSE [tx |-> StreamTx(n), res |-> Accepted,
                        receipt |-> StreamTx(n).signatures]
        /\ enqueued = b.pending
        /\ replica = FreshStateManager(Ascending)
        /\ tasks = [p \in Procs |-> IdleTask]
        /\ flush = IdleFlush
        /\ exited = FALSE
    /\ flush = IdleFlush
    /\ exited = FALSE

\* the positions of the stream at which a further request is explored
SendWindow == {n + j : n \in Backlogs, j \in 1 .. MaxExtra}

\* sendTransaction, the flush timer and the batch processor
NextBatch ==
    \/ (calls + 1) \in SendWindow /\ SendTransaction(StreamTx(calls + 1), AllOk)
    \/ CreateBatch
    \/ CreateBatchEmpty
    \/ \E ok \in BOOLEAN : ProcessBatches(ok)

SpecBatch == InitBatch /\ [][NextBatch]_vars

RECURSIVE Concat(_)
Concat(batches) ==
    IF batches = <<>> THEN <<>> ELSE Head(batches) \o Concat(Tail(batches))

\* every batch sent on the channel so far, in sending order
Emitted == [i \in 1 .. Len(l1_log) |-> l1_log[i].batch] \o channel
EmittedAfter == [i \in 1 .. Len(l1_log') |-> l1_log'[i].batch] \o channel'
BatchSizes == [i \in 1 .. Len(Emitted) |-> Len(Emitted[i])]

\* batches are non-empty, of at most 100 transactions, and together with the
\* queue they are the enqueue order
FifoBatches ==
    /\ \A i \in 1 .. Len(Emitted) :
           Len(Emitted[i]) >= 1 /\ Len(Emitted[i]) <= MaxBatchSize
    /\ Concat(Emitted) \o pending_txs = enqueued
    /\ (Len(enqueued) = 250 /\ pending_txs = <<>> /\ Len(Emitted) = 3)
           => BatchSizes = <<100, 100, 50>>

\* a step that emits a batch emits the min(len, 100) oldest pending entries
\* and leaves the others; a tick on an empty queue emits nothing
FlushTakesOldest ==
    /\ (Len(EmittedAfter) > Len(Emitted)) =>
          /\ pending_txs # <<>>
          /\ EmittedAfter = Append(Emitted,
                 SubSeq(pending_txs, 1, Min(Len(pending_txs), 100)))
          /\ pending_txs' = SubSeq(pending_txs,
                 Min(Len(pending_txs), 100) + 1, Len(pending_txs))
    /\ (pending_txs = <<>> /\ ~IsCall) => EmittedAfter = Emitted

\* C7: every emitted batch has at most 100 transactions and is the
\* min(queue length, 100) oldest entries of the queue at flush time; the
\* emitted batches concatenated are a prefix of the enqueue order; 250
\* enqueued transactions leave in batches of 100, 100, 50; a tick on an empty
\* queue emits no batch.
C7_FifoBatching == []FifoBatches /\ [][FlushTakesOldest]_vars

\* C7 witness: 250 transactions were enqueued and three ticks emptied the
\* queue into batches of 100, 100 and 50
C7_Witness ==
    /\ Len(enqueued) = 250
    /\ pending_txs = <<>>
    /\ BatchSizes = <<100, 100, 50>>
    /\ Concat(Emitted) = enqueued

\* C8 (as claimed, for any capacity up to the explored backlog of 250): the
\* queue never holds more than its capacity, an enqueue at capacity being
\* rejected.
C8_BoundedQueue == \E capacity \in 0 .. 250 : Len(pending_txs) <= capacity

\* the transactions the settlement layer accepted
Settled ==
    Concat([i \in 1 .. Len(l1_log) |->
                IF l1_log[i].ok THEN l1_log[i].batch ELSE <<>>])

InSeq(x, seq) == \E i \in 1 .. Len(seq) : seq[i] = x

\* C9 (as claimed): every enqueued transaction is still pending, or in a
\* batch on its way, or in a batch the settlement layer accepted: a batch
\* whose forwarding failed is back in the queue.
C9_NoSilentLoss ==
    \A i \in 1 .. Len(enqueued) :
        \/ InSeq(enqueued[i], pending_txs)
        \/ InSeq(enqueued[i], Concat(channel))
        \/ InSeq(enqueued[i], Settled)

(* ================== the commitment of two state managers =============== *)

\* records written by update_account in the comparison of two ledgers
UpdateRecords == {Account(40), Account(60), ProgramAccount}

\* two StateManagers on empty stores, each HashMap with an enumeration order
\* of its own
InitCommit ==
    /\ accounts = <<>>
    /\ db = <<>>
    /\ state_root = ZeroRoot
    /\ iter_order \in IterOrders
    /\ replica \in {FreshStateManager(o) : o \in IterOrders}
    /\ nonce_tracker = <<>>
    /\ overflow_checks = TRUE
    /\ pending_txs = <<>>
    /\ channel = <<>>
    /\ l1_log = <<>>
    /\ calls = 0
    /\ last = NoCall
    /\ enqueued = <<>>
    /\ tasks = [p \in Procs |-> IdleTask]
    /\ flush = IdleFlush
    /\ exited = FALSE

\* update_account(k, a) on the first StateManager
UpdateFirst(k, a, put_ok) ==
    LET u == UpdateAccount(accounts, db, state_root, iter_order, k, a, put_ok) IN
    /\ accounts' = u.accounts
    /\ db' = u.db
    /\ state_root' = u.state_root
    /\ UNCHANGED <<nonce_tracker, buildVars, seqVars, rpcVars, auxVars>>

\* update_account(k, a) on the second StateManager
UpdateReplica(k, a, put_ok) ==
    LET u == UpdateAccount(replica.accounts, replica.db, replica.state_root,
                           replica.iter_order, k, a, put_ok) IN
    /\ replica' = [replica EXCEPT !.accounts = u.accounts, !.db = u.db,
                                  !.state_root = u.state_root]
    /\ UNCHANGED <<ledgerVars, buildVars, seqVars, rpcVars, tasks, flush, exited>>

NextCommit ==
    \/ \E k \in Pubkeys, a \in UpdateRecords : UpdateFirst(k, a, TRUE)
    \/ \E k \in Pubkeys, a \in UpdateRecords : UpdateReplica(k, a, TRUE)

SpecCommit == InitCommit /\ [][NextCommit]_vars

\* C10 (as claimed): two ledgers that hold the same (id, record) pairs, each
\* having computed its commitment over them, have the same commitment.
C10_OrderIndependent ==
    (/\ accounts = replica.accounts
     /\ ~state_root.fresh
     /\ ~replica.state_root.fresh)
    => state_root = replica.state_root

(* ============ concurrent sendTransaction requests, step by step ======== *)
(* Each request runs on its own task of the multi-threaded runtime.  The   *)
(* std RwLocks are taken and released inside single statements, so a step  *)
(* below is one critical section or one call of the store.                 *)

\* the transfers served concurrently
ConcTxs == {Transfer(1, 2, 60, 1), Transfer(1, 3, 60, 1), Transfer(2, 1, 40, 1)}

\* the ledger found at start by the concurrent requests
ConcLedger == 1 :> Account(100)

InitConc ==
    /\ accounts = <<>>
    /\ db = StoreOf(ConcLedger)
    /\ state_root = ZeroRoot
    /\ nonce_tracker = <<>>
    /\ iter_order = Ascending
    /\ overflow_checks = TRUE
    /\ pending_txs = <<>>
    /\ channel = <<>>
    /\ l1_log = <<>>
    /\ calls = 0
    /\ last = NoCall
    /\ enqueued = <<>>
    /\ replica = FreshStateManager(Ascending)
    /\ tasks = [p \in Procs |-> IdleTask]
    /\ flush = IdleFlush
    /\ exited = FALSE

\* the request of task t ends with result res; its locals are dropped
Finished(t, res) == [IdleTask EXCEPT !.pc = "done", !.tx = t.tx, !.res = res]

\* the account the current get_account / update_account of task t is about
Subject(t) ==
    IF t.who = "from" THEN ConvertToL2(t.tx).from ELSE ConvertToL2(t.tx).to

\* the record the current update_account of task t writes
Written(t) == IF t.who = "from" THEN t.from_account ELSE t.to_account

\* transfer_lamports of task t continues after a get_account that returned
\* rec (the default account for None): after the sender, the balance check;
\* after the recipient, both copies are changed
AfterGet(t, rec, checks) ==
    IF t.who = "from"
    THEN IF rec.lamports < ConvertToL2(t.tx).lamports
         THEN Finished(t, ErrInsufficientFunds)
         ELSE [t EXCEPT !.from_account = rec, !.who = "to", !.pc = "get_cache",
                        !.loaded = DefaultAccount]
    ELSE IF rec.lamports + ConvertToL2(t.tx).lamports > U64Max /\ checks
         THEN Finished(t, Panicked)
         ELSE [t EXCEPT
                 !.from_account.lamports = @ - ConvertToL2(t.tx).lamports,
                 !.to_account = [rec EXCEPT !.lamports =
                                   Credit(rec.lamports, ConvertToL2(t.tx).lamports)],
                 !.who = "from", !.pc = "upd_cache", !.loaded = DefaultAccount]

\* process_transaction begins: validate_transaction and
\* convert_to_l2_transaction touch no shared state
Begin(p, tx) ==
    /\ tasks[p].pc = "idle"
    /\ tasks' = [tasks EXCEPT ![p] =
         IF ValidateTransaction(tx, nonce_tracker) # Accepted
         THEN Finished([IdleTask EXCEPT !.tx = tx],
                       ValidateTransaction(tx, nonce_tracker))
         ELSE IF ConvertToL2(tx).res # Accepted
         THEN Finished([IdleTask EXCEPT !.tx = tx], ConvertToL2(tx).res)
         ELSE [IdleTask EXCEPT !.tx = tx, !.who = "from",
                 !.pc = IF ConvertToL2(tx).has_to THEN "get_cache" ELSE "nonce"]]
    /\ UNCHANGED <<ledgerVars, buildVars, seqVars, rpcVars, bgVars>>

\* get_account: the lookup in the cache under the read lock
GetCache(p) ==
    /\ tasks[p].pc = "get_cache"
    /\ tasks' = [tasks EXCEPT ![p] =
         IF Subject(tasks[p]) \in DOMAIN accounts
         THEN AfterGet(tasks[p], accounts[Subject(tasks[p])], overflow_checks)
         ELSE [tasks[p] EXCEPT !.pc = "get_db"]]
    /\ UNCHANGED <<ledgerVars, buildVars, seqVars, rpcVars, bgVars>>

\* get_account: db.get and deserialize after a miss in the cache
GetDb(p, get_ok) ==
    /\ tasks[p].pc = "get_db"
    /\ tasks' = [tasks EXCEPT ![p] =
         IF /\ get_ok
            /\ Subject(tasks[p]) \in DOMAIN db
            /\ Deserialize(db[Subject(tasks[p])]).ok
         THEN [tasks[p] EXCEPT !.pc = "get_fill",
                 !.loaded = Deserialize(db[Subject(tasks[p])]).val]
         ELSE AfterGet(tasks[p], DefaultAccount, overflow_checks)]
    /\ UNCHANGED <<ledgerVars, buildVars, seqVars, rpcVars, bgVars>>

\* get_account: the loaded record is inserted into the cache under the write
\* lock and returned
GetFill(p) ==
    /\ tasks[p].pc = "get_fill"
    /\ accounts' = MapInsert(accounts, Subject(tasks[p]), tasks[p].loaded)
    /\ tasks' = [tasks EXCEPT ![p] =
                   AfterGet(tasks[p], tasks[p].loaded, overflow_checks)]
    /\ UNCHANGED <<db, state_root, nonce_tracker, buildVars, seqVars, rpcVars,
                   bgVars>>

\* update_account: the insert into the cache under the write lock
UpdCache(p) ==
    /\ tasks[p].pc = "upd_cache"
    /\ accounts' = MapInsert(accounts, Subject(tasks[p]), Written(tasks[p]))
    /\ tasks' = [tasks EXCEPT ![p].pc = "upd_put"]
    /\ UNCHANGED <<db, state_root, nonce_tracker, buildVars, seqVars, rpcVars,
                   bgVars>>

\* update_account: db.put; its error ends the request
UpdPut(p, put_ok) ==
    /\ tasks[p].pc = "upd_put"
    /\ db' = IF put_ok
             THEN MapInsert(db, Subject(tasks[p]), Serialize(Written(tasks[p])))
             ELSE db
    /\ tasks' = [tasks EXCEPT ![p] =
                   IF put_ok THEN [tasks[p] EXCEPT !.pc = "upd_root"]
                   ELSE Finished(tasks[p], ErrStorage)]
    /\ UNCHANGED <<accounts, state_root, nonce_tracker, buildVars, seqVars,
                   rpcVars, bgVars>>

\* update_account: update_state_root, which hashes the cache as it is now;
\* after the sender the recipient is written, after the recipient
\* transfer_lamports returns Ok
UpdRoot(p) ==
    /\ tasks[p].pc = "upd_root"
    /\ state_root' = UpdateStateRoot(accounts, iter_order)
    /\ tasks' = [tasks EXCEPT ![p] =
                   IF tasks[p].who = "from"
                   THEN [tasks[p] EXCEPT !.who = "to", !.pc = "upd_cache"]
                   ELSE [tasks[p] EXCEPT !.pc = "nonce"]]
    /\ UNCHANGED <<accounts, db, nonce_tracker, buildVars, seqVars, rpcVars,
                   bgVars>>

\* execute_l2_transaction: the nonce update under the write lock
NonceUpdate(p) ==
    /\ tasks[p].pc = "nonce"
    /\ nonce_tracker' = BumpNonce(nonce_tracker, ConvertToL2(tasks[p].tx).from)
    /\ tasks' = [tasks EXCEPT ![p].pc = "enqueue"]
    /\ UNCHANGED <<accounts, db, state_root, buildVars, seqVars, rpcVars, bgVars>>

\* send_transaction: add_transaction, which waits for the write lock of the
\* queue while create_batch holds it; then the signature is returned
Enqueue(p) ==
    /\ tasks[p].pc = "enqueue"
    /\ flush.pc = "idle"
    /\ pending_txs' = AddTransaction(pending_txs, tasks[p].tx)
    /\ enqueued' = Append(enqueued, tasks[p].tx)
    /\ tasks' = [tasks EXCEPT ![p] = Finished(tasks[p], Accepted)]
    /\ UNCHANGED <<ledgerVars, buildVars, channel, l1_log, calls, last, bgVars>>

\* storage outcomes explored for the concurrent requests
ConcStorage == {TRUE}

NextConc ==
    \E p \in Procs :
        \/ \E tx \in ConcTxs : Begin(p, tx)
        \/ GetCache(p)
        \/ \E ok \in ConcStorage : GetDb(p, ok)
        \/ GetFill(p)
        \/ UpdCache(p)
        \/ \E ok \in ConcStorage : UpdPut(p, ok)
        \/ UpdRoot(p)
        \/ NonceUpdate(p)
        \/ Enqueue(p)

SpecConc == InitConc /\ [][NextConc]_vars

AllDone == \A p \in Procs : tasks[p].pc = "done"

\* process_transaction(tx) on the result r of an earlier call
ProcessNext(r, tx) ==
    ProcessTransaction(r.s, r.nonces, Ascending, TRUE, tx, AllOk)

\* the requests of tasks p then q served one at a time from the initial ledger
OneAtATime(p, q) ==
    ProcessNext(
        ProcessNext([s |-> [accounts |-> <<>>, db |-> StoreOf(ConcLedger),
                            state_root |-> ZeroRoot], nonces |-> <<>>],
                    tasks[p].tx),
        tasks[q].tx)

\* the balances are those that serving the requests as p then q leaves
BalancesAsIf(r) ==
    \A k \in Pubkeys : BalanceOf(k) = View(r.s.accounts, r.s.db, k).lamports

\* C4 (as claimed): when concurrent requests have all returned, the balances
\* are those of serving them one at a time in some order; from account 1 =
\* 100, two concurrent transfers of 60 to accounts 2 and 3 end with exactly
\* one accepted, account 1 = 40 and 60 credited in total.
C4_Linearizable ==
    AllDone =>
        /\ \E p \in Procs, q \in Procs :
               p # q /\ BalancesAsIf(OneAtATime(p, q))
        /\ ({tasks[p].tx : p \in Procs}
                = {Transfer(1, 2, 60, 1), Transfer(1, 3, 60, 1)})
           => /\ Cardinality({p \in Procs : tasks[p].res = Accepted}) = 1
              /\ BalanceOf(1) = 40
              /\ BalanceOf(2) + BalanceOf(3) = 60

(* ============ cache and store under concurrent requests =============== *)

\* no request task is inside get_account or update_account
NoStorageCallInProgress ==
    \A p \in Procs : tasks[p].pc \in {"idle", "nonce", "enqueue", "done"}

\* C19 (as claimed): with a storage that works, whenever no get_account and
\* no update_account is in progress, every id of the cache has in the store
\* the very record the cache holds for it (the one of the last completed
\* update), whatever the interleaving of concurrent updates of one id and of
\* a read-through get with an update.
C19_CacheStoreCoherent ==
    NoStorageCallInProgress =>
        \A k \in DOMAIN accounts :
            /\ k \in DOMAIN db
            /\ db[k] = Serialize(accounts[k])

(* ============== one transaction on two copies of a ledger ============== *)
(* Two nodes built on copies of the same store.  Each has a HashMap of its *)
(* own (its own enumeration order) and serves its own read calls, so the   *)
(* same records may be cached in one and only stored in the other.         *)

\* a second node at construction on the store dbv: StateManager::new and
\* TransactionProcessor::new
TwinNode(iter, dbv) ==
    [accounts |-> <<>>, db |-> dbv, state_root |-> ZeroRoot,
     iter_order |-> iter, nonce_tracker |-> <<>>, last |-> NoCall]

InitTwin ==
    /\ accounts = <<>>
    /\ db \in {StoreOf(l) : l \in InitialLedgers}
    /\ state_root = ZeroRoot
    /\ nonce_tracker = <<>>
    /\ iter_order \in IterOrders
    /\ overflow_checks \in BOOLEAN
    /\ pending_txs = <<>>
    /\ channel = <<>>
    /\ l1_log = <<>>
    /\ calls = 0
    /\ last = NoCall
    /\ enqueued = <<>>
    /\ replica \in {TwinNode(o, db) : o \in IterOrders}
    /\ tasks = [p \in Procs |-> IdleTask]
    /\ flush = IdleFlush
    /\ exited = FALSE

\* process_transaction returned r on the first node and r2 on the second
TwinProcessed(tx, r, r2) ==
    /\ accounts' = r.s.accounts
    /\ db' = r.s.db
    /\ state_root' = r.s.state_root
    /\ nonce_tracker' = r.nonces
    /\ last' = [tx |-> tx, res |-> r.res, receipt |-> r.receipt]
    /\ calls' = calls + 1
    /\ replica' = [replica EXCEPT
                     !.accounts = r2.s.accounts, !.db = r2.s.db,
                     !.state_root = r2.s.state_root, !.nonce_tracker = r2.nonces,
                     !.last = [tx |-> tx, res |-> r2.res, receipt |-> r2.receipt]]
    /\ UNCHANGED <<buildVars, seqVars, enqueued, tasks, flush, exited>>

\* process_transaction(tx) on each of the two nodes, storage working
TwinProcess(tx) ==
    TwinProcessed(tx,
        ProcessTransaction(
            [accounts |-> accounts, db |-> db, state_root |-> state_root],
            nonce_tracker, iter_order, overflow_checks, tx, AllOk),
        ProcessTransaction(
            [accounts |-> replica.accounts, db |-> replica.db,
             state_root |-> replica.state_root],
            replica.nonce_tracker, replica.iter_order, overflow_checks, tx, AllOk))

\* getBalance on the second node: get_account, which fills its cache
TwinGetBalance(k) ==
    /\ replica' = [replica EXCEPT
                     !.accounts = GetAccount(replica.accounts, replica.db, k,
                                             TRUE).accounts]
    /\ UNCHANGED <<ledgerVars, buildVars, seqVars, rpcVars, tasks, flush, exited>>

NextTwin ==
    \/ \E tx \in TxSet : calls < MaxCalls /\ TwinProcess(tx)
    \/ \E k \in Pubkeys : GetBalance(k, TRUE)
    \/ \E k \in Pubkeys : TwinGetBalance(k)

SpecTwin == InitTwin /\ [][NextTwin]_vars

\* the two nodes hold the same ledger state: the same record for every id
\* and the same tracked nonces
SameLedger ==
    /\ \A k \in Pubkeys : RecordOf(k) = View(replica.accounts, replica.db, k)
    /\ \A k \in Pubkeys : TrackedNonce(nonce_tracker, k)
                             = TrackedNonce(replica.nonce_tracker, k)

\* C11: process_transaction(T) on two nodes holding the same ledger state
\* gives the same result (the same receipt or the same error) and leaves the
\* same records and the same tracked nonces, whatever the enumeration order
\* of each cache and whichever records each node has cached.
C11_Deterministic ==
    [][(IsCall /\ SameLedger) =>
          /\ last' = replica'.last
          /\ \A k \in Pubkeys :
                 RecordAfter(k) = View(replica'.accounts, replica'.db, k)
          /\ \A k \in Pubkeys :
                 TrackedNonce(nonce_tracker', k)
                     = TrackedNonce(replica'.nonce_tracker, k)]_vars

\* C11 witness: both nodes accepted the same two transactions, the caches
\* enumerate differently and hold different entries, and the state roots
\* differ while the ledgers agree
C11_Witness ==
    /\ calls = 2
    /\ last.res = Accepted /\ replica.last.res = Accepted
    /\ IsTransferTx(last.tx)
    /\ iter_order # replica.iter_order
    /\ DOMAIN accounts # DOMAIN replica.accounts
    /\ state_root # replica.state_root
    /\ SameLedger

(* ============================== shutdown =============================== *)

\* main after ctrl_c: handle.stop() and return.  The runtime is dropped with
\* main's return, and with it the tasks of start_batching and
\* process_batches, the pending queue and the channel; nothing is flushed.
Shutdown ==
    /\ exited' = TRUE
    /\ UNCHANGED <<ledgerVars, buildVars, seqVars, rpcVars, replica, tasks, flush>>

\* the pipeline until main returns; no task runs after that
NextShutdown ==
    /\ ~exited
    /\ \/ NextBatch
       \/ Shutdown

SpecShutdown == InitBatch /\ [][NextShutdown]_vars

\* every batch process_batches has received, in order
Received == [i \in 1 .. Len(l1_log) |-> l1_log[i].batch]

\* C12 (as claimed): once the process has exited on the shutdown signal, the
\* pending queue has been drained and every enqueued transaction has been
\* forwarded in a batch; no transaction is accepted after the signal.
C12_GracefulShutdown ==
    /\ [](exited => (pending_txs = <<>> /\ Concat(Received) = enqueued))
    /\ [][exited => (enqueued' = enqueued /\ nonce_tracker' = nonce_tracker)]_vars

(* ================= the ledger with a storage that works ================ *)

\* sendTransaction and the read calls, every db.get and db.put returning Ok
NextStorageOk ==
    \/ \E tx \in TxSet : calls < MaxCalls /\ SendTransaction(tx, AllOk)
    \/ \E k \in Pubkeys : GetBalance(k, TRUE)

SpecStorageOk == Init /\ [][NextStorageOk]_vars

\* C13 (as claimed): a transfer between distinct accounts of no more than
\* the sender holds returns a receipt, takes exactly the amount from the
\* sender, adds exactly the amount to the recipient (an absent recipient
\* starting as the zero-balance system-owned default), advances the sender's
\* tracked nonce by one and leaves every other record unchanged.
C13_TransferEffect ==
    [][(/\ IsCall
        /\ IsTransferTx(last'.tx)
        /\ ConvertToL2(last'.tx).from # ConvertToL2(last'.tx).to
        /\ ConvertToL2(last'.tx).lamports <= BalanceOf(ConvertToL2(last'.tx).from))
       => LET l2 == ConvertToL2(last'.tx) IN
          /\ last'.res = Accepted
          /\ last'.receipt = <<l2.signature>>
          /\ RecordAfter(l2.from) =
                 [RecordOf(l2.from) EXCEPT !.lamports = @ - l2.lamports]
          /\ RecordAfter(l2.to) =
                 [RecordOf(l2.to) EXCEPT !.lamports = @ + l2.lamports]
          /\ TrackedNonce(nonce_tracker', l2.from)
                 = TrackedNonce(nonce_tracker, l2.from) + 1
          /\ \A k \in Pubkeys \ {l2.from, l2.to} : RecordAfter(k) = RecordOf(k)]_vars

(* ======================= the nonce tracker ============================= *)

\* the requests sent by k for which execute_l2_transaction has returned Ok:
\* those at add_transaction and those that returned the signature
AcceptedBy(k) ==
    {p \in Procs :
        /\ ConvertToL2(tasks[p].tx).res = Accepted
        /\ ConvertToL2(tasks[p].tx).from = k
        /\ \/ tasks[p].pc = "enqueue"
           \/ tasks[p].pc = "done" /\ tasks[p].res = Accepted}

\* the tracked nonce of every account is the number of its accepted
\* transactions
NonceCountsAccepted ==
    \A k \in Pubkeys :
        TrackedNonce(nonce_tracker, k) = Cardinality(AcceptedBy(k))

\* a step removes no entry, lowers none, and raises an entry by at most one
NonceStep ==
    \A k \in Pubkeys :
        /\ k \in DOMAIN nonce_tracker => k \in DOMAIN nonce_tracker'
        /\ TrackedNonce(nonce_tracker', k) >= TrackedNonce(nonce_tracker, k)
        /\ TrackedNonce(nonce_tracker', k) <= TrackedNonce(nonce_tracker, k) + 1

\* C14: under concurrent requests a tracked nonce is never removed and never
\* decreases; it grows by one with each accepted transaction of its account
\* and so equals their number; rejected transactions and transactions of
\* other senders leave it unchanged.
C14_NonceMonotone == []NonceCountsAccepted /\ [][NonceStep]_vars

\* C14 witness: two concurrent requests of account 1 have both returned Ok
\* and its tracked nonce is 2
C14_Witness ==
    /\ AllDone
    /\ TrackedNonce(nonce_tracker, 1) = 2
    /\ \A p \in Procs : tasks[p].res = Accepted

(* ======================= non-transfer payloads ========================= *)

\* tx passes validation and convert_to_l2_transaction returns an
\* L2Transaction with to: None
IsNonTransferTx(tx) ==
    /\ ValidateTransaction(tx, <<>>) = Accepted
    /\ ConvertToL2(tx).res = Accepted
    /\ ~ConvertToL2(tx).has_to

\* C15: a validly signed transaction that decodes to no recipient (no
\* instruction, another instruction tag, a transfer instruction with fewer
\* than two accounts) is accepted and enqueued, leaves the cache, the store
\* and the state root unchanged and advances the sender's tracked nonce by
\* one, leaving the other tracked nonces alone.
C15_NonTransferAccepted ==
    [][(IsCall /\ IsNonTransferTx(last'.tx)) =>
          /\ last'.res = Accepted
          /\ last'.receipt = <<ConvertToL2(last'.tx).signature>>
          /\ accounts' = accounts /\ db' = db /\ state_root' = state_root
          /\ \A k \in Pubkeys : RecordAfter(k) = RecordOf(k)
          /\ nonce_tracker' = BumpNonce(nonce_tracker, ConvertToL2(last'.tx).from)
          /\ pending_txs' = Append(pending_txs, last'.tx)]_vars

\* C15 witness: after an accepted transfer has set the state root, a
\* transfer instruction with a single account was accepted as the second
\* transaction of account 1
C15_Witness ==
    /\ calls = 2
    /\ last.tx = OneAccountTx
    /\ last.res = Accepted
    /\ TrackedNonce(nonce_tracker, 1) = 2
    /\ ~state_root.fresh
    /\ BalanceOf(1) = 60 /\ BalanceOf(2) = 40

(* ================== what the state root speaks for ===================== *)

\* every account the ledger holds: the ids of the cache and of the store,
\* each with the record get_account returns for it
AccountSet ==
    [k \in (DOMAIN accounts) \cup (DOMAIN db) |-> RecordOf(k)]

\* the hash update_state_root would compute over the whole account set, in
\* the enumeration order of this node
FullDigest == UpdateStateRoot(AccountSet, iter_order)

\* C16 (as claimed): between calls, get_state_root is the digest of the
\* entire account set, cached or stored: also right after a start on a
\* non-empty store and after get_account has loaded a stored account into
\* the cache.
C16_RootCoversLedger == state_root.hash = FullDigest.hash

(* ========= concurrent requests, the flush task and the receiver ======== *)

\* the transactions submitted concurrently: transfers, a transaction with a
\* bad signature and one without instruction
PipeTxs == ConcTxs \cup {BadSigTx, NoInstrTx}

\* request tasks step by step, with the tick of start_batching and
\* process_batches running beside them
NextPipe ==
    \/ \E p \in Procs :
        \/ \E tx \in PipeTxs : Begin(p, tx)
        \/ GetCache(p)
        \/ GetDb(p, TRUE)
        \/ GetFill(p)
        \/ UpdCache(p)
        \/ UpdPut(p, TRUE)
        \/ UpdRoot(p)
        \/ NonceUpdate(p)
        \/ Enqueue(p)
    \/ CreateBatch
    \/ CreateBatchEmpty
    \/ \E ok \in BOOLEAN : ProcessBatches(ok)

SpecPipe == InitConc /\ [][NextPipe]_vars

\* the requests for which process_transaction has returned Ok and
\* add_transaction has not run yet
AtEnqueue == {p \in Procs : tasks[p].pc = "enqueue"}

\* the requests that returned the signature, resp. an error
ReturnedOk == {p \in Procs : tasks[p].pc = "done" /\ tasks[p].res = Accepted}
ReturnedErr == {p \in Procs : tasks[p].pc = "done" /\ tasks[p].res # Accepted}

\* the number of times execute_l2_transaction has returned Ok
Executions ==
    TrackedNonce(nonce_tracker, 1) + TrackedNonce(nonce_tracker, 2)
        + TrackedNonce(nonce_tracker, 3)

\* the number of entries of seq equal to x
Occurrences(x, seq) == Cardinality({i \in 1 .. Len(seq) : seq[i] = x})

\* every entry of the enqueue order is in exactly one place: the emitted
\* batches in order, then the queue; each entry is the transaction of a
\* request that returned Ok, as often as such requests exist; each enqueue
\* follows an execution that returned Ok
BatchedOnce ==
    /\ Concat(Emitted) \o pending_txs = enqueued
    /\ Len(enqueued) = Cardinality(ReturnedOk)
    /\ \A p \in Procs :
           Occurrences(tasks[p].tx, enqueued)
               = Cardinality({q \in ReturnedOk : tasks[q].tx = tasks[p].tx})
    /\ \A p \in ReturnedErr :
           Occurrences(tasks[p].tx, enqueued) > 0
               => \E q \in ReturnedOk : tasks[q].tx = tasks[p].tx
    /\ Executions = Len(enqueued) + Cardinality(AtEnqueue)

\* a step that adds to the enqueue order is add_transaction of a request
\* whose process_transaction returned Ok; a step that emits a batch is the
\* only step to take from the queue, takes its oldest entries, and nothing
\* is added to the queue in that step
EnqueueAndDrainSteps ==
    /\ enqueued' # enqueued =>
          \E p \in AtEnqueue :
              /\ enqueued' = Append(enqueued, tasks[p].tx)
              /\ pending_txs' = Append(pending_txs, tasks[p].tx)
              /\ tasks'[p].pc = "done" /\ tasks'[p].res = Accepted
    /\ EmittedAfter # Emitted =>
          /\ enqueued' = enqueued
          /\ EmittedAfter = Append(Emitted, DrainBatch(pending_txs))
          /\ pending_txs' = DrainRest(pending_txs)
    /\ (EmittedAfter = Emitted /\ enqueued' = enqueued)
          => pending_txs' = pending_txs

\* C17: under every interleaving of concurrent requests with the flush
\* task, only transactions whose execution returned Ok are enqueued, a
\* request that returned an error enqueues nothing, every enqueued entry is
\* in exactly one batch or still in the queue, exactly once, and a drain is
\* one step of the single flush task.
C17_ExecutedBatchedOnce == []BatchedOnce /\ [][EnqueueAndDrainSteps]_vars

\* C17 witness: two concurrent requests of account 1 returned Ok, their
\* transactions left in two different batches, both received
C17_Witness ==
    /\ AllDone
    /\ Cardinality(ReturnedOk) = 2
    /\ Len(l1_log) = 2
    /\ channel = <<>> /\ pending_txs = <<>>
    /\ Concat(Received) = enqueued

(* ============ the flush task against a full batch channel ============== *)
(* batch_sender.send(batch).await waits while the channel holds            *)
(* ChannelCapacity batches, and create_batch holds the write lock of       *)
(* pending_txs across that wait, so add_transaction waits too.             *)

\* a create_batch whose send gives up on a full channel (try_send): the
\* drained batch is dropped with the printed error
CreateBatchBlocked_TrySend ==
    /\ flush.pc = "idle"
    /\ pending_txs # <<>>
    /\ Len(channel) >= ChannelCapacity
    /\ pending_txs' = DrainRest(pending_txs)
    /\ UNCHANGED <<channel, l1_log, flush, ledgerVars, buildVars, rpcVars,
                   replica, tasks, exited>>

\* create_batch finding the channel full: the batch is drained and the send
\* waits, the write guard of pending_txs still alive
CreateBatchBlocked ==
    /\ flush.pc = "idle"
    /\ pending_txs # <<>>
    /\ Len(channel) >= ChannelCapacity
    /\ flush' = [pc |-> "sending", batch |-> DrainBatch(pending_txs)]
    /\ pending_txs' = DrainRest(pending_txs)
    /\ UNCHANGED <<channel, l1_log, ledgerVars, buildVars, rpcVars,
                   replica, tasks, exited>>

\* the waiting send completes once the receiver has made room; create_batch
\* returns and drops the guard
SendUnblocked ==
    /\ flush.pc = "sending"
    /\ Len(channel) < ChannelCapacity
    /\ channel' = Append(channel, flush.batch)
    /\ flush' = IdleFlush
    /\ UNCHANGED <<pending_txs, l1_log, ledgerVars, buildVars, rpcVars,
                   replica, tasks, exited>>

\* send_transaction up to add_transaction: process_transaction returned r
SubmitProcessed(p, tx, r) ==
    /\ accounts' = r.s.accounts
    /\ db' = r.s.db
    /\ state_root' = r.s.state_root
    /\ nonce_tracker' = r.nonces
    /\ last' = [tx |-> tx, res |-> r.res, receipt |-> r.receipt]
    /\ calls' = calls + 1
    /\ tasks' = [tasks EXCEPT ![p] =
                   IF r.res = Accepted
                   THEN [IdleTask EXCEPT !.tx = tx, !.pc = "enqueue"]
                   ELSE Finished([IdleTask EXCEPT !.tx = tx], r.res)]
    /\ UNCHANGED <<buildVars, seqVars, enqueued, bgVars>>

\* a request task serves sendTransaction(tx) up to the call of
\* add_transaction
Submit(p, tx) ==
    /\ tasks[p].pc \in {"idle", "done"}
    /\ SubmitProcessed(p, tx,
           ProcessTransaction(
               [accounts |-> accounts, db |-> db, state_root |-> state_root],
               nonce_tracker, iter_order, overflow_checks, tx, AllOk))

\* the node after m requests of the stream, each followed by a tick of
\* start_batching, process_batches not having received yet: m batches of one
\* transaction wait in the channel
AfterFlushes(m) ==
    [s |-> AfterSends(m).s, nonces |-> AfterSends(m).nonces,
     pending |-> <<>>,
     channel |-> [i \in 1 .. m |-> <<StreamTx(i)>>],
     enqueued |-> [i \in 1 .. m |-> StreamTx(i)]]

\* the node after the request i + 1 left `sent` and the tick that follows
\* has drained the queue into the channel, which holds i batches
FlushStep(i, sent) ==
    [s |-> sent.s, nonces |-> sent.nonces,
     pending |-> DrainRest(sent.pending),
     channel |-> Append(AfterFlushes(i).channel, DrainBatch(sent.pending)),
     enqueued |-> Append(AfterFlushes(i).enqueued, StreamTx(i + 1))]

\* AfterFlushes(m) is what the code computes while the channel has room:
\* a request and a tick lead from AfterFlushes(i) to AfterFlushes(i + 1)
AfterFlushesComputed(m) ==
    /\ m <= ChannelCapacity
    /\ \A i \in 0 .. m - 1 :
           FlushStep(i, SendStream([s |-> AfterFlushes(i).s,
                                    nonces |-> AfterFlushes(i).nonces,
                                    pending |-> <<>>], i + 1))
               = AfterFlushes(i + 1)

\* the node with m batches waiting in the channel and no request in service
InitLoaded(m) ==
        /\ AfterFlushesComputed(m)
        /\ accounts = AfterFlushes(m).s.accounts
        /\ db = AfterFlushes(m).s.db
        /\ state_root = AfterFlushes(m).s.state_root
        /\ nonce_tracker = AfterFlushes(m).nonces
        /\ iter_order = Ascending
        /\ overflow_checks = TRUE
        /\ pending_txs = <<>>
        /\ channel = AfterFlushes(m).channel
        /\ l1_log = <<>>
        /\ calls = m
        /\ last = IF m = 0 THEN NoCall
                  ELSE [tx |-> StreamTx(m), res |-> Accepted,
                        receipt |-> StreamTx(m).signatures]
        /\ enqueued = AfterFlushes(m).enqueued
        /\ replica = FreshStateManager(Ascending)
        /\ tasks = [p \in Procs |-> IdleTask]
        /\ flush = IdleFlush
        /\ exited = FALSE

\* the channel is full: ChannelCapacity batches wait for process_batches
InitLive == InitLoaded(ChannelCapacity)

\* the positions of the stream that the request tasks submit, one each
LiveWindow == {ChannelCapacity + p : p \in Procs}

\* a tick of start_batching that finds transactions in the queue
Tick == CreateBatch \/ CreateBatchBlocked

\* one iteration of process_batches (the answer of the settlement layer
\* changes nothing in the channel)
Receive == ProcessBatches(TRUE)

NextLive ==
    \/ \E p \in Procs :
           tasks[p].pc = "idle" /\ Submit(p, StreamTx(calls + 1))
    \/ \E p \in Procs : Enqueue(p)
    \/ CreateBatch
    \/ CreateBatchBlocked
    \/ CreateBatchEmpty
    \/ SendUnblocked
    \/ ProcessBatches(TRUE)

\* the interval keeps ticking, a send that has room completes, the receiver
\* keeps receiving, and a task waiting for the write lock of the queue gets
\* it once it is free
Fairness ==
    /\ WF_vars(Tick)
    /\ WF_vars(SendUnblocked)
    /\ WF_vars(Receive)
    /\ \A p \in Procs : WF_vars(Enqueue(p))

SpecLive == InitLive /\ [][NextLive]_vars /\ Fairness

\* the n-th transaction of the stream is in a batch sent to the channel
Sent(n) ==
    \E b \in 1 .. Len(Emitted) :
        \E j \in 1 .. Len(Emitted[b]) : Emitted[b][j] = StreamTx(n)

\* C18: with the timer ticking and the receiver receiving, the n-th
\* enqueued transaction is eventually sent to the channel in a batch, and a
\* request waiting in add_transaction for the lock that a blocked
\* create_batch holds eventually enqueues and returns.
C18_BatchingLiveness ==
    /\ \A n \in LiveWindow : (Len(enqueued) >= n) ~> Sent(n)
    /\ \A p \in Procs : (tasks[p].pc = "enqueue") ~> (tasks[p].pc = "done")

\* C18 witness: create_batch waits on the full channel holding the queue
\* lock while a request, already executed, waits in add_transaction
C18_Witness ==
    /\ flush.pc = "sending"
    /\ Len(channel) = ChannelCapacity
    /\ \E p \in Procs : tasks[p].pc = "enqueue"

(* ========================= the range of balances ======================= *)

\* C20 (as claimed): in a transfer between distinct accounts the debit is
\* refused before any mutation when it would go below zero, and the credit
\* never overflows: the call does not abort on the addition, and an accepted
\* transfer leaves the recipient with its balance plus the amount, not with
\* that sum modulo 2^64.
C20_BalanceRange ==
    [][(/\ IsCall
        /\ IsTransferTx(last'.tx)
        /\ ConvertToL2(last'.tx).from # ConvertToL2(last'.tx).to)
       => LET l2 == ConvertToL2(last'.tx) IN
          /\ last'.res # Panicked
          /\ l2.lamports > BalanceOf(l2.from) =>
                /\ last'.res = ErrInsufficientFunds
                /\ \A k \in Pubkeys : RecordAfter(k) = RecordOf(k)
          /\ last'.res = Accepted =>
                /\ BalanceAfter(l2.from) = BalanceOf(l2.from) - l2.lamports
                /\ BalanceAfter(l2.to) = BalanceOf(l2.to) + l2.lamports
          /\ \A k \in Pubkeys : BalanceAfter(k) \in 0 .. U64Max]_vars

(* ========================== error reporting ============================ *)

\* the errors process_transaction can hand back to its caller as Err(..)
ReturnedErrors ==
    {ErrInvalidSignature, ErrNoSignature, ErrNoFeePayer, ErrInsufficientFunds,
     ErrStorage}

\* tx passes validation and its first instruction is tagged as a system
\* transfer, but it has fewer than TransferDataLen data bytes or names a
\* recipient index outside account_keys
IsMalformedTransfer(tx) ==
    /\ ValidateTransaction(tx, <<>>) = Accepted
    /\ tx.signatures # <<>>
    /\ tx.account_keys # <<>>
    /\ tx.instructions # <<>>
    /\ tx.instructions[1].program_id_index = SystemProgramIndex
    /\ tx.instructions[1].data.len >= TagLen
    /\ tx.instructions[1].data.tag = TransferTag
    /\ \/ tx.instructions[1].data.len < TransferDataLen
       \/ /\ Len(tx.instructions[1].accounts) > 1
          /\ tx.instructions[1].accounts[2] >= Len(tx.account_keys)

\* C21 (as claimed): every call of process_transaction returns either a
\* receipt or one error and never aborts; a transfer-tagged instruction with
\* too few data bytes or a recipient index outside the key list is rejected
\* as an error, and the ledger, the nonces and the queue are left as they were.
C21_TotalErrorReporting ==
    [][IsCall =>
         /\ last'.res \in {Accepted} \cup ReturnedErrors
         /\ (last'.res = Accepted) <=> (last'.receipt # <<>>)
         /\ IsMalformedTransfer(last'.tx) =>
               /\ last'.res \in ReturnedErrors
               /\ accounts' = accounts /\ db' = db
               /\ state_root' = state_root
               /\ nonce_tracker' = nonce_tracker
               /\ pending_txs' = pending_txs]_vars

====
